---- MODULE Spec2Model ----
(***************************************************************************)
(* Model of the event substrate of the backtesting engine:                 *)
(*   src/events/events.py     the Event dataclasses (frozen, slots)        *)
(*   src/core/event_queue.py  EventQueue: put / get / empty / len / peek   *)
(*                                                                         *)
(* Event objects live in `heap`; an object reference is an index into it.  *)
(* The deque `_q` holds references.  Optional[int] is modelled as a        *)
(* sequence of length 0 (None) or 1 (the value).                           *)
(*                                                                         *)
(* Scope.  The operations are modelled from the bodies of the classes and   *)
(* methods, on a queue instance whose two fields hold the values that       *)
(* EventQueue.__init__ names on lines 24-25: an empty deque and             *)
(* _next_seq = 0.  Two statements outside those bodies' normal path are     *)
(* not part of the specifications of the queue operations (SpecInit steps   *)
(* through the second one):                                                 *)
(*   - events.py line 50, `from __future__ import annotations`, follows a   *)
(*     second string-literal statement (lines 8-47), which CPython rejects  *)
(*     when it compiles the module;                                         *)
(*   - event_queue.py line 24 is the chained assignment                     *)
(*     `self._q = Deque[Event] = deque()`: its second target is an item     *)
(*     assignment on typing.Deque, which raises TypeError after self._q     *)
(*     is bound and before line 25 runs.                                    *)
(* Every property of put, get, peek, empty and len below is therefore a    *)
(* property of the operations given such an instance; whether construction  *)
(* yields one is what SpecInit is about.                                    *)
(*                                                                         *)
(* Ghost variables: put_log and get_log record what put and get returned,  *)
(* ret the last operation and its result, overlap whether a put (a get)    *)
(* ever started while another thread was inside put (get).  ctor is the    *)
(* progress of a call of EventQueue.__init__ and which fields it has bound. *)
(***************************************************************************)
EXTENDS Integers, Sequences, FiniteSets, TLC

VARIABLES heap, q, next_seq, uuid_ctr, ret, put_log, get_log, pc, loc, overlap,
          ctor

vars ==
    <<heap, q, next_seq, uuid_ctr, ret, put_log, get_log, pc, loc, overlap, ctor>>

(* ------------------------------ bounds -------------------------------- *)

\* Largest number of Event objects ever allocated (constructed or stamped).
MaxObjs == 4

\* Number of producer threads of the concurrent specification.
NumProducers == 2

\* Number of consumer threads of the concurrent-consumer specification.
NumConsumers == 2

(* --------------------------- Optional[...] ----------------------------- *)

None == <<>>

Some(v) == <<v>>

(* ---------------------------- events.py -------------------------------- *)

\* The values of EventType.
EventType ==
    {"MARKET_DATA", "SIGNAL", "ORDER", "FILL", "POSITION", "PNL", "RISK",
     "CORPORATE_ACTION", "LATENCY"}

\* The dataclasses of the taxonomy: the base class and its nine variants.
Classes ==
    {"Event", "MarketDataEvent", "SignalEvent", "OrderEvent", "FillEvent",
     "PositionEvent", "PnLEvent", "RiskEvent", "CorporateActionEvent",
     "LatencyEvent"}

\* event_type is field(init=False): the base class gives it no default (the
\* slot stays unset), each variant defaults it to its own tag.
DefaultTag(cls) ==
    CASE cls = "MarketDataEvent"      -> "MARKET_DATA"
      [] cls = "SignalEvent"          -> "SIGNAL"
      [] cls = "OrderEvent"           -> "ORDER"
      [] cls = "FillEvent"            -> "FILL"
      [] cls = "PositionEvent"        -> "POSITION"
      [] cls = "PnLEvent"             -> "PNL"
      [] cls = "RiskEvent"            -> "RISK"
      [] cls = "CorporateActionEvent" -> "CORPORATE_ACTION"
      [] cls = "LatencyEvent"         -> "LATENCY"
      [] OTHER                        -> "UNSET"

\* The generated __init__ of a dataclass: every init=True field is taken from
\* the arguments, event_type is set from the class default.  `payload` stands
\* for the variant's own fields (<<>> for the base class, which has none).
NewEvent(cls, ts, eid, s, md, pl) ==
    [cls        |-> cls,
     event_type |-> DefaultTag(cls),
     ts_event   |-> ts,
     event_id   |-> eid,
     seq        |-> s,
     metadata   |-> md,
     payload    |-> pl]

\* A call Event(ts_event=...) built as the base class, whatever the class of
\* the source object (used by a mutant of Replace).
ReplaceAsBase(e, s) ==
    NewEvent("Event", e.ts_event, e.event_id, Some(s), e.metadata, <<>>)

\* dataclasses.replace(event, seq=s): a new object of the same class, built by
\* calling its __init__ with every init=True field copied from `event` and seq
\* overridden; init=False fields (event_type) are left to __init__.
Replace(e, s) ==
    NewEvent(e.cls, e.ts_event, e.event_id, Some(s), e.metadata, e.payload)

(* ------------------------ inputs of the model -------------------------- *)

\* Classes the producers construct.
InputClasses == {"Event", "OrderEvent"}

\* ts_event arguments.
TsValues == {"t1"}

\* event_id arguments: None lets default_factory draw uuid4().hex.
EventIdArgs == {None, Some(0)}

\* seq arguments: the default None, or a value set by the producer.
SeqArgs == {None, Some(0)}

\* metadata arguments.
MetadataArgs == {"{}"}

\* Payload arguments of a variant (its symbol); the base class has no payload.
PayloadArgs(cls) == IF cls = "Event" THEN {<<>>} ELSE {<<"AAPL">>}

Refs == 1..Len(heap)

Producers == 1..NumProducers

Consumers == (NumProducers + 1)..(NumProducers + NumConsumers)

Threads == Producers \cup Consumers

(* ------------------------------ Init ----------------------------------- *)

NoRet == [op |-> "init", arg |-> None, val |-> None, err |-> "none"]

IdleLoc == [event |-> None, stamped |-> None, tmp |-> None]

\* An instance on which both assignments of __init__ have taken effect.
Constructed ==
    [pc |-> "done", has_q |-> TRUE, has_next_seq |-> TRUE, err |-> "none"]

Init ==
    /\ heap = <<>>
    /\ q = <<>>
    /\ next_seq = 0
    /\ uuid_ctr = 0
    /\ ret = NoRet
    /\ put_log = <<>>
    /\ get_log = <<>>
    /\ pc = [p \in Threads |-> "idle"]
    /\ loc = [p \in Threads |-> IdleLoc]
    /\ overlap = FALSE
    /\ ctor = Constructed

(* ------------------------- construction -------------------------------- *)

\* A construction whose default event_id was drawn once, when the class was
\* defined: `event_id: str = uuid4().hex` without default_factory (a mutant).
ConstructFromSharedDefault(classes, eids, seqs) ==
    /\ Len(heap) < MaxObjs
    /\ \E cls \in classes, ts \in TsValues, ea \in eids, sa \in seqs,
          md \in MetadataArgs :
         \E pl \in PayloadArgs(cls) :
           LET eid == IF ea = None THEN 1 ELSE ea[1]
           IN /\ heap' = Append(heap, NewEvent(cls, ts, eid, sa, md, pl))
              /\ uuid_ctr' = IF ea = None THEN uuid_ctr + 1 ELSE uuid_ctr
              /\ ret' = [op |-> "construct", arg |-> None,
                         val |-> Some(Len(heap) + 1), err |-> "none"]
    /\ UNCHANGED <<q, next_seq, put_log, get_log, pc, loc, overlap, ctor>>

\* A producer constructs an event of one of `classes`, passing event_id and
\* seq arguments from `eids` and `seqs`.  uuid4() is a fresh identifier.
ConstructFrom(classes, eids, seqs) ==
    /\ Len(heap) < MaxObjs
    /\ \E cls \in classes, ts \in TsValues, ea \in eids, sa \in seqs,
          md \in MetadataArgs :
         \E pl \in PayloadArgs(cls) :
           LET eid == IF ea = None THEN uuid_ctr + 1 ELSE ea[1]
           IN /\ heap' = Append(heap, NewEvent(cls, ts, eid, sa, md, pl))
              /\ uuid_ctr' = IF ea = None THEN uuid_ctr + 1 ELSE uuid_ctr
              /\ ret' = [op |-> "construct", arg |-> None,
                         val |-> Some(Len(heap) + 1), err |-> "none"]
    /\ UNCHANGED <<q, next_seq, put_log, get_log, pc, loc, overlap, ctor>>

\* Any construction the dataclass accepts.
Construct == ConstructFrom(InputClasses, EventIdArgs, SeqArgs)

\* A construction with the defaults: Variant(ts_event=...).
ConstructDefault == ConstructFrom({"MarketDataEvent"}, {None}, {None})

(* ------------------------- event_queue.py ------------------------------ *)

\* A put that also writes seq into the caller's object (used by a mutant).
HeapAfterStampInPlace(h, o, c) ==
    Append([h EXCEPT ![o].seq = Some(c)], Replace(h[o], c))

\* Line 34: event_with_seq = replace(event, seq=self._next_seq).  The event
\* classes are frozen, so the caller's object h[o] is not written; the stamped
\* copy is a new object, whose reference is Len(h) + 1.
HeapAfterStamp(h, o, c) == Append(h, Replace(h[o], c))

\* Counter updates used by mutants: a skipped number, a forgotten increment.
NextSeqSkipping(c) == c + 2

NextSeqStuck(c) == c

\* Line 35: self._next_seq += 1, as the value stored from the value loaded.
NextSeqAfterPut(c) == c + 1

\* A put that stamps and returns the event but does not store it (a mutant).
QAfterAppendDropping(dq, o) == dq

\* deque.appendleft (used by a mutant).
QAfterAppendLeft(dq, o) == <<o>> \o dq

\* Line 36: self._q.append(event_with_seq).
QAfterAppend(dq, o) == Append(dq, o)

\* deque.pop(), the right end (used by a mutant).
PopRightValue(dq) == dq[Len(dq)]

\* What deque.pop() leaves: the right end removed (used by a mutant).
PopRightRest(dq) == SubSeq(dq, 1, Len(dq) - 1)

\* A get that leaves the deque as it was (used by a mutant).
PopLeftKeeping(dq) == dq

\* Line 41: self._q.popleft() on a non-empty deque: the value returned ...
PopLeftValue(dq) == Head(dq)

\* ... and the deque it leaves.
PopLeftRest(dq) == Tail(dq)

\* A peek at the right end, self._q[-1] (used by a mutant).
PeekLastValue(dq) == IF dq # <<>> THEN Some(dq[Len(dq)]) ELSE None

\* Line 52: return self._q[0] if self._q else None.
PeekValue(dq) == IF dq # <<>> THEN Some(dq[1]) ELSE None

\* A put on a store that holds at most two events and refuses more (a
\* mutant: deque(maxlen=...) or a bounded queue.Queue in place of deque()).
PutBounded(o) ==
    /\ Len(heap) < MaxObjs
    /\ Len(q) < 2
    /\ \A p \in Producers : pc[p] = "idle"
    /\ heap' = HeapAfterStamp(heap, o, next_seq)
    /\ next_seq' = NextSeqAfterPut(next_seq)
    /\ q' = QAfterAppend(q, Len(heap) + 1)
    /\ ret' = [op |-> "put", arg |-> Some(o), val |-> Some(Len(heap) + 1),
               err |-> "none"]
    /\ put_log' = Append(put_log, [obj |-> Len(heap) + 1, by |-> 0])
    /\ UNCHANGED <<uuid_ctr, get_log, pc, loc, overlap, ctor>>

\* EventQueue.put(event), lines 27-37, run without interruption.  `o` is any
\* object the caller holds: a constructed one or one a put or get returned.
Put(o) ==
    /\ Len(heap) < MaxObjs
    /\ \A p \in Producers : pc[p] = "idle"
    /\ heap' = HeapAfterStamp(heap, o, next_seq)
    /\ next_seq' = NextSeqAfterPut(next_seq)
    /\ q' = QAfterAppend(q, Len(heap) + 1)
    /\ ret' = [op |-> "put", arg |-> Some(o), val |-> Some(Len(heap) + 1),
               err |-> "none"]
    /\ put_log' = Append(put_log, [obj |-> Len(heap) + 1, by |-> 0])
    /\ UNCHANGED <<uuid_ctr, get_log, pc, loc, overlap, ctor>>

\* A get that clears the counter when it removes the last stored event (a
\* mutant).
GetResettingWhenDrained ==
    \/ /\ q = <<>>
       /\ ret' = [op |-> "get", arg |-> None, val |-> None, err |-> "IndexError"]
       /\ UNCHANGED <<heap, q, next_seq, uuid_ctr, put_log, get_log, pc, loc,
                      overlap, ctor>>
    \/ /\ q # <<>>
       /\ ret' = [op |-> "get", arg |-> None, val |-> Some(PopLeftValue(q)),
                  err |-> "none"]
       /\ q' = PopLeftRest(q)
       /\ next_seq' = IF PopLeftRest(q) = <<>> THEN 0 ELSE next_seq
       /\ get_log' = Append(get_log, PopLeftValue(q))
       /\ UNCHANGED <<heap, uuid_ctr, put_log, pc, loc, overlap, ctor>>

\* A get that clears the counter when it finds the queue empty (a mutant).
GetResetting ==
    \/ /\ q = <<>>
       /\ ret' = [op |-> "get", arg |-> None, val |-> None, err |-> "IndexError"]
       /\ next_seq' = 0
       /\ UNCHANGED <<heap, q, uuid_ctr, put_log, get_log, pc, loc, overlap, ctor>>
    \/ /\ q # <<>>
       /\ ret' = [op |-> "get", arg |-> None, val |-> Some(PopLeftValue(q)),
                  err |-> "none"]
       /\ q' = PopLeftRest(q)
       /\ get_log' = Append(get_log, PopLeftValue(q))
       /\ UNCHANGED <<heap, next_seq, uuid_ctr, put_log, pc, loc, overlap, ctor>>

\* EventQueue.get(), lines 39-41: deque.popleft() raises IndexError on an
\* empty deque and changes nothing; otherwise it removes and returns the head.
Get ==
    \/ /\ q = <<>>
       /\ ret' = [op |-> "get", arg |-> None, val |-> None, err |-> "IndexError"]
       /\ UNCHANGED <<heap, q, next_seq, uuid_ctr, put_log, get_log, pc, loc,
                      overlap, ctor>>
    \/ /\ q # <<>>
       /\ ret' = [op |-> "get", arg |-> None, val |-> Some(PopLeftValue(q)),
                  err |-> "none"]
       /\ q' = PopLeftRest(q)
       /\ get_log' = Append(get_log, PopLeftValue(q))
       /\ UNCHANGED <<heap, next_seq, uuid_ctr, put_log, pc, loc, overlap, ctor>>

\* EventQueue.empty(), lines 43-45.
Empty ==
    /\ ret' = [op |-> "empty", arg |-> None, val |-> Some(Len(q) = 0),
               err |-> "none"]
    /\ UNCHANGED <<heap, q, next_seq, uuid_ctr, put_log, get_log, pc, loc,
                   overlap, ctor>>

\* A size that reports the counter, the number of puts so far (a mutant).
SizeFromCounter ==
    /\ ret' = [op |-> "len", arg |-> None, val |-> Some(next_seq), err |-> "none"]
    /\ UNCHANGED <<heap, q, next_seq, uuid_ctr, put_log, get_log, pc, loc,
                   overlap, ctor>>

\* EventQueue.__len__(), lines 47-48.
Size ==
    /\ ret' = [op |-> "len", arg |-> None, val |-> Some(Len(q)), err |-> "none"]
    /\ UNCHANGED <<heap, q, next_seq, uuid_ctr, put_log, get_log, pc, loc,
                   overlap, ctor>>

\* EventQueue.peek(), lines 50-52.
Peek ==
    /\ ret' = [op |-> "peek", arg |-> None, val |-> PeekValue(q), err |-> "none"]
    /\ UNCHANGED <<heap, q, next_seq, uuid_ctr, put_log, get_log, pc, loc,
                   overlap, ctor>>

(* ---------------- put, one statement at a time (threads) --------------- *)

\* Line 34 in producer p: the counter is read and the stamped copy is built.
\* The copy is private to p until line 36.
PutStamp(p, o) ==
    /\ pc[p] = "idle"
    /\ Len(heap) < MaxObjs
    /\ heap' = HeapAfterStamp(heap, o, next_seq)
    /\ loc' = [loc EXCEPT ![p] = [event |-> Some(o),
                                  stamped |-> Some(Len(heap) + 1),
                                  tmp |-> None]]
    /\ pc' = [pc EXCEPT ![p] = "L35_load"]
    /\ overlap' = (overlap \/ \E p2 \in Producers \ {p} : pc[p2] # "idle")
    /\ UNCHANGED <<q, next_seq, uuid_ctr, ret, put_log, get_log, ctor>>

\* Line 35, first half: self._next_seq is loaded.
PutLoad(p) ==
    /\ pc[p] = "L35_load"
    /\ loc' = [loc EXCEPT ![p].tmp = Some(next_seq)]
    /\ pc' = [pc EXCEPT ![p] = "L35_store"]
    /\ UNCHANGED <<heap, q, next_seq, uuid_ctr, ret, put_log, get_log, overlap, ctor>>

\* Line 35, second half: the incremented value is stored.
PutStore(p) ==
    /\ pc[p] = "L35_store"
    /\ next_seq' = NextSeqAfterPut(loc[p].tmp[1])
    /\ pc' = [pc EXCEPT ![p] = "L36"]
    /\ UNCHANGED <<heap, q, uuid_ctr, ret, put_log, get_log, loc, overlap, ctor>>

\* Lines 36-37: the copy is appended and returned to p's caller.
PutAppend(p) ==
    /\ pc[p] = "L36"
    /\ q' = QAfterAppend(q, loc[p].stamped[1])
    /\ put_log' = Append(put_log, [obj |-> loc[p].stamped[1], by |-> p])
    /\ pc' = [pc EXCEPT ![p] = "idle"]
    /\ loc' = [loc EXCEPT ![p] = IdleLoc]
    /\ UNCHANGED <<heap, next_seq, uuid_ctr, ret, overlap, ctor>>
    /\ UNCHANGED get_log

(* --------------------------- specifications ---------------------------- *)

\* One caller at a time: every operation runs to completion.
Next ==
    \/ Construct
    \/ \E o \in Refs : Put(o)
    \/ Get
    \/ Empty
    \/ Size
    \/ Peek

Spec == Init /\ [][Next]_vars

\* Several producers inside put at once, and a consumer.
NextConc ==
    \/ ConstructDefault
    \/ \E p \in Producers : \E o \in Refs : PutStamp(p, o)
    \/ \E p \in Producers : PutLoad(p)
    \/ \E p \in Producers : PutStore(p)
    \/ \E p \in Producers : PutAppend(p)
    \/ Get

SpecConc == Init /\ [][NextConc]_vars

(* ---------------- get, one step at a time (threads) -------------------- *)

\* Line 41 in consumer c: self._q.popleft is looked up; the call comes next.
GetLoad(c) ==
    /\ pc[c] = "idle"
    /\ pc' = [pc EXCEPT ![c] = "L41_call"]
    /\ overlap' = (overlap \/ \E c2 \in Consumers \ {c} : pc[c2] # "idle")
    /\ UNCHANGED <<heap, q, next_seq, uuid_ctr, ret, put_log, get_log, loc, ctor>>

\* A get that returns the head and leaves it stored (a mutant).
GetPopKeeping(c) ==
    /\ pc[c] = "L41_call"
    /\ pc' = [pc EXCEPT ![c] = "idle"]
    /\ \/ /\ q = <<>>
          /\ UNCHANGED get_log
       \/ /\ q # <<>>
          /\ get_log' = Append(get_log, PopLeftValue(q))
    /\ UNCHANGED <<heap, q, next_seq, uuid_ctr, ret, put_log, loc, overlap, ctor>>

\* Line 41 in consumer c: the call of deque.popleft, one call of the C
\* implementation, which removes and returns the head as a single step (or
\* raises IndexError on an empty deque), and the return to c's caller.
GetPop(c) ==
    /\ pc[c] = "L41_call"
    /\ pc' = [pc EXCEPT ![c] = "idle"]
    /\ \/ /\ q = <<>>
          /\ UNCHANGED <<q, get_log>>
       \/ /\ q # <<>>
          /\ q' = PopLeftRest(q)
          /\ get_log' = Append(get_log, PopLeftValue(q))
    /\ UNCHANGED <<heap, next_seq, uuid_ctr, ret, put_log, loc, overlap, ctor>>

\* Several consumers inside get at once; puts run one at a time.
NextCons ==
    \/ ConstructDefault
    \/ \E o \in Refs : Put(o)
    \/ \E c \in Consumers : GetLoad(c)
    \/ \E c \in Consumers : GetPop(c)

SpecCons == Init /\ [][NextCons]_vars

(* ------------------- every variant of the taxonomy --------------------- *)

\* A construction of any of the ten classes with default event_id and seq.
ConstructVariant == ConstructFrom(Classes, {None}, {None})

\* One caller at a time, events of every class.
NextVariants ==
    \/ ConstructVariant
    \/ \E o \in Refs : Put(o)
    \/ Get

SpecVariants == Init /\ [][NextVariants]_vars

(* ---------------------- EventQueue.__init__ ------------------------------ *)

\* typing.Deque (imported on line 16) is a generic alias: it can be
\* subscripted, Deque[Event], but defines no __setitem__.
TypingAliasHasSetItem == FALSE

\* A call EventQueue() that has not yet run a statement of __init__.
InitCtor ==
    /\ heap = <<>>
    /\ q = <<>>
    /\ next_seq = 0
    /\ uuid_ctr = 0
    /\ ret = NoRet
    /\ put_log = <<>>
    /\ get_log = <<>>
    /\ pc = [p \in Threads |-> "idle"]
    /\ loc = [p \in Threads |-> IdleLoc]
    /\ overlap = FALSE
    /\ ctor = [pc |-> "L24", has_q |-> FALSE, has_next_seq |-> FALSE,
               err |-> "none"]

\* Line 24, `self._q = Deque[Event] = deque()`: deque() is evaluated and
\* assigned to the first target, self._q.
CtorBindQ ==
    /\ ctor.pc = "L24"
    /\ q' = <<>>
    /\ ctor' = [ctor EXCEPT !.pc = "L24_item", !.has_q = TRUE]
    /\ UNCHANGED <<heap, next_seq, uuid_ctr, ret, put_log, get_log, pc, loc,
                   overlap>>

\* Line 24, second target: Deque[Event] = <the deque> is an item assignment
\* on typing.Deque.  Where that is not supported it raises TypeError and
\* __init__ ends there; otherwise line 25 sets self._next_seq = 0 and
\* __init__ returns.
CtorRest ==
    /\ ctor.pc = "L24_item"
    /\ IF TypingAliasHasSetItem
         THEN /\ next_seq' = 0
              /\ ctor' = [ctor EXCEPT !.pc = "done", !.has_next_seq = TRUE]
         ELSE /\ UNCHANGED next_seq
              /\ ctor' = [ctor EXCEPT !.pc = "raised", !.err = "TypeError"]
    /\ UNCHANGED <<heap, q, uuid_ctr, ret, put_log, get_log, pc, loc, overlap>>

\* A program that constructs events and calls EventQueue().
NextInit ==
    \/ Construct
    \/ CtorBindQ
    \/ CtorRest

SpecInit == InitCtor /\ [][NextInit]_vars

(* ------------------- a consumer that keeps dequeuing ------------------- *)

\* One caller at a time: events are constructed, enqueued and dequeued.
NextLive ==
    \/ ConstructDefault
    \/ \E o \in Refs : Put(o)
    \/ Get

\* The consumer keeps calling get: a get that can remove an event is not
\* put off for ever.
SpecLive == Init /\ [][NextLive]_vars /\ WF_vars(Get)

(* ------------------------------ claims --------------------------------- *)

\* The seq value of a stamped object.
SeqOf(o) == heap[o].seq[1]

\* C1: the events returned by the successful dequeues are, in order, a prefix
\* of the stamped events returned by the enqueues; once the queue is empty
\* again the two sequences are equal.
C1_FifoOrder ==
    /\ Len(get_log) <= Len(put_log)
    /\ \A i \in 1..Len(get_log) : get_log[i] = put_log[i].obj
    /\ (q = <<>> => Len(get_log) = Len(put_log))

C1_Witness ==
    /\ Len(put_log) >= 2
    /\ Len(get_log) = Len(put_log)
    /\ get_log[1] # get_log[2]

\* C2: the k-th enqueue, counting from 0, returns an event whose seq is k,
\* whatever dequeues and queries come between the enqueues.
C2_GaplessSeq ==
    \A k \in 1..Len(put_log) : heap[put_log[k].obj].seq = Some(k - 1)

C2_Witness ==
    /\ Len(put_log) >= 3
    /\ Len(get_log) >= 1
    /\ ret.op = "put"

\* C3: an enqueue of an event whose seq is already set signals an error and
\* leaves the stored events and the counter as they were.
C3_RejectsStamped ==
    [][(ret'.op = "put" /\ heap[ret'.arg[1]].seq # None)
         => (ret'.err # "none" /\ q' = q /\ next_seq' = next_seq)]_vars

\* C4: a constructed event has no seq until an enqueue stamps it, and no
\* event_id is ever carried with two different seq values.
C4_StampedOnce ==
    [][/\ (ret'.op = "construct" => heap'[ret'.val[1]].seq = None)
       /\ \A o1, o2 \in 1..Len(heap') :
            (/\ heap'[o1].event_id = heap'[o2].event_id
             /\ heap'[o1].seq # None
             /\ heap'[o2].seq # None)
              => heap'[o1].seq = heap'[o2].seq]_vars

\* C5: a dequeue on an empty queue returns no event and signals IndexError at
\* once; the queue stays empty, the counter keeps its value, and an enqueue
\* that follows is stamped with that value.
C5_EmptyGet ==
    [][/\ (ret'.op = "get" /\ q = <<>>)
            => /\ ret'.err = "IndexError"
               /\ ret'.val = None
               /\ q' = <<>>
               /\ next_seq' = next_seq
               /\ heap' = heap
       /\ (ret.op = "get" /\ ret.err = "IndexError" /\ ret'.op = "put")
            => heap'[ret'.val[1]].seq = Some(next_seq)]_vars

C5_Witness ==
    /\ ret.op = "get"
    /\ ret.err = "IndexError"
    /\ next_seq >= 2
    /\ Len(get_log) >= 1

\* C6: an enqueue writes no field of the object passed in (nor of any other
\* existing object); the stamped event is a different, new object, and an
\* unstamped original is still unstamped.
C6_PutLeavesOriginal ==
    [][ret'.op = "put"
         => /\ \A o \in Refs : heap'[o] = heap[o]
            /\ ret'.val[1] \notin Refs
            /\ ret'.val # ret'.arg
            /\ (heap[ret'.arg[1]].seq = None
                  => heap'[ret'.arg[1]].seq = None)]_vars

C6_Witness ==
    /\ ret.op = "put"
    /\ heap[ret.arg[1]].seq = None
    /\ heap[ret.val[1]].seq # None

\* C7: peek returns the head (None on an empty queue, without an error) and
\* changes neither the stored events nor the counter; a dequeue right after
\* a peek of a non-empty queue returns the event the peek returned.
C7_PeekNonDestructive ==
    [][/\ ret'.op = "peek"
            => /\ q' = q
               /\ heap' = heap
               /\ next_seq' = next_seq
               /\ ret'.err = "none"
               /\ ret'.val = (IF Len(q) = 0 THEN None ELSE Some(Head(q)))
       /\ (ret.op = "peek" /\ ret.val # None /\ ret'.op = "get")
            => (ret'.err = "none" /\ ret'.val = ret.val)]_vars

C7_Witness ==
    /\ ret.op = "peek"
    /\ ret.val # None
    /\ Len(q) >= 2

\* C8: an enqueue of an unstamped event, with counter c and stored sequence
\* S, returns an event equal to the input in every field but seq, which is c;
\* the counter becomes c + 1 and the store becomes S with the returned event
\* appended.
C8_PutEffect ==
    [][(ret'.op = "put" /\ heap[ret'.arg[1]].seq = None)
         => LET e == heap[ret'.arg[1]]
                r == heap'[ret'.val[1]]
            IN /\ r.cls = e.cls
               /\ r.event_type = e.event_type
               /\ r.ts_event = e.ts_event
               /\ r.event_id = e.event_id
               /\ r.metadata = e.metadata
               /\ r.payload = e.payload
               /\ r.seq = Some(next_seq)
               /\ next_seq' = next_seq + 1
               /\ q' = Append(q, ret'.val[1])]_vars

C8_Witness ==
    /\ ret.op = "put"
    /\ heap[ret.arg[1]].seq = None
    /\ heap[ret.arg[1]].cls = "OrderEvent"
    /\ Len(q) >= 2

\* C9: every dequeued event was stamped and stored by an earlier enqueue, no
\* stamped event is dequeued twice, and a dequeued event is no longer stored
\* (so no later peek or dequeue returns it).
C9_ConsumedOnce ==
    /\ \A i \in 1..Len(get_log) :
         /\ \E k \in 1..Len(put_log) : put_log[k].obj = get_log[i]
         /\ heap[get_log[i]].seq # None
         /\ \A k \in 1..Len(q) : q[k] # get_log[i]
    /\ \A i, j \in 1..Len(get_log) :
         i # j => (get_log[i] # get_log[j] /\ SeqOf(get_log[i]) # SeqOf(get_log[j]))
    /\ (ret.op = "peek" /\ ret.val # None)
         => \A i \in 1..Len(get_log) : get_log[i] # ret.val[1]

C9_Witness ==
    /\ Len(get_log) >= 2
    /\ q # <<>>

\* The producers' results: no two puts returned the same seq, and the stored
\* events are in ascending seq order.
UniqueAndAscending ==
    /\ \A i, j \in 1..Len(put_log) :
         i # j => SeqOf(put_log[i].obj) # SeqOf(put_log[j].obj)
    /\ \A i, j \in 1..Len(q) : i < j => SeqOf(q[i]) < SeqOf(q[j])

\* C10 as claimed: with the statements of concurrent puts interleaved in any
\* way, no two producers receive the same seq and the store is in ascending
\* seq order.
C10_ConcurrentPut == UniqueAndAscending

\* C10 as amended: as long as no put has started while another producer was
\* inside put, no two producers receive the same seq and the store is in
\* ascending seq order.
C10_SerializedPut == (~overlap) => UniqueAndAscending

C10_Witness ==
    /\ ~overlap
    /\ \E i, j \in 1..Len(put_log) : put_log[i].by = 1 /\ put_log[j].by = 2

\* C11: with several consumers inside get at once, no stored event is
\* returned by more than one dequeue, and the successful dequeues never
\* outnumber the events stored.
C11_ConcurrentGet ==
    /\ \A i, j \in 1..Len(get_log) : i # j => get_log[i] # get_log[j]
    /\ \A i \in 1..Len(get_log) : \E k \in 1..Len(put_log) :
         put_log[k].obj = get_log[i]
    /\ Len(get_log) <= Len(put_log)

C11_Witness ==
    /\ overlap
    /\ Len(get_log) >= 2
    /\ \A c \in Consumers : pc[c] = "idle"

\* C12: the number of stored events is the number of enqueues minus the
\* number of successful dequeues; size returns that number, which is never
\* negative, and is_empty returns whether it is 0; neither of the two changes
\* the stored events or the counter.
C12_SizeAndEmpty ==
    [][/\ Len(q') = Len(put_log') - Len(get_log')
       /\ ret'.op = "len"
            => /\ ret'.val[1] = Len(put_log) - Len(get_log)
               /\ ret'.val[1] >= 0
               /\ ret'.err = "none"
               /\ q' = q /\ heap' = heap /\ next_seq' = next_seq
       /\ ret'.op = "empty"
            => /\ ret'.val[1] = (Len(put_log) - Len(get_log) = 0)
               /\ ret'.err = "none"
               /\ q' = q /\ heap' = heap /\ next_seq' = next_seq]_vars

C12_Witness ==
    /\ ret.op = "len"
    /\ ret.val[1] >= 1
    /\ Len(get_log) >= 1
    /\ Len(put_log) >= 3

\* C13: an enqueue of an unstamped event is enabled whatever the class of
\* the event and the number of stored events (up to the model's bound on
\* allocated objects), and it completes without an error, the event stored.
C13_PutAlwaysEnabled ==
    /\ \A o \in Refs :
         (heap[o].seq = None /\ Len(heap) < MaxObjs) => ENABLED Put(o)
    /\ ret.op = "put"
         => /\ ret.err = "none"
            /\ ret.val # None
            /\ q # <<>>
            /\ q[Len(q)] = ret.val[1]

C13_Witness ==
    /\ ret.op = "put"
    /\ Len(q) >= 3
    /\ heap[ret.arg[1]].seq = None
    /\ heap[ret.arg[1]].cls = "LatencyEvent"

\* The event_id of the event a construction has just returned differs from
\* the event_id of every event that existed before.
NewIdIsFresh ==
    \A o \in Refs : heap[o].event_id # heap'[ret'.val[1]].event_id

C15_StoredSeqsConsecutive ==
    /\ \A k \in 1..Len(q) :
         heap[q[k]].seq = Some(next_seq - Len(q) + k - 1)
    /\ \A k \in 2..Len(q) : SeqOf(q[1]) < SeqOf(q[k])
    /\ (ret.op = "get" /\ ret.val # None)
         => \A k \in 1..Len(q) : SeqOf(ret.val[1]) < SeqOf(q[k])

C15_Witness ==
    /\ ret.op = "get"
    /\ ret.val # None
    /\ Len(q) >= 2
    /\ SeqOf(q[1]) >= 1

\* C16: the counter never decreases and only an enqueue changes it (dequeue,
\* peek, is_empty and size leave it as it is, also when the queue becomes
\* empty), and the seq an enqueue assigns was assigned by no earlier enqueue.
C16_CounterMonotone ==
    [][/\ next_seq' >= next_seq
       /\ (next_seq' # next_seq => (ret'.op = "put" /\ ret'.err = "none"))
       /\ (ret'.op \in {"get", "peek", "empty", "len"} => next_seq' = next_seq)
       /\ ret'.op = "put"
            => \A k \in 1..Len(put_log) :
                 heap[put_log[k].obj].seq # heap'[ret'.val[1]].seq]_vars

C16_Witness ==
    /\ ret.op = "put"
    /\ Len(q) = 1
    /\ Len(get_log) >= 2
    /\ next_seq >= 3

\* C17: constructing a queue raises no error, and when __init__ has ended
\* the instance has no stored events (size 0, is_empty true, peek None) and
\* its counter is 0.
C17_ConstructionSucceeds ==
    /\ ctor.err = "none"
    /\ ctor.pc # "raised"
    /\ ctor.pc = "done"
         => /\ ctor.has_q
            /\ ctor.has_next_seq
            /\ Len(q) = 0
            /\ PeekValue(q) = None
            /\ next_seq = 0

\* Object o was returned by an enqueue / by a dequeue.
Enqueued(o) == \E k \in 1..Len(put_log) : put_log[k].obj = o

Dequeued(o) == \E i \in 1..Len(get_log) : get_log[i] = o

====
